---- MODULE Spec2Model ----
(***************************************************************************)
(* A model of task.py: the contact manager's field types (Name, Phone,     *)
(* Birthday), Record, AddressBook, the command handlers, the pickle        *)
(* persistence and the command loop of main().                             *)
(*                                                                         *)
(* Python strings are TLA+ strings (Len, SubSeq and \o work on them).      *)
(* Every input string used here is ASCII; on ASCII text str.isdigit() and  *)
(* the \d of strptime accept exactly the characters "0".."9".              *)
(* An optional value (None or an object) is a sequence of length 0 or 1.   *)
(* A dict is the sequence of its values in insertion order.                *)
(* A call that may raise returns a record with a field "raised".           *)
(***************************************************************************)
EXTENDS Integers, Sequences, FiniteSets, TLC

VARIABLES
    records,    \* AddressBook.records of the book in memory (task.py:68)
    file,       \* addressbook.pkl: None when missing, else Some(its content)
    saved,      \* the book given to the most recent save_data(), if any
    pc,         \* where main() is: "off", "loop", "done" or "crashed"
    loads,      \* calls of load_data() in the current session
    saves,      \* calls of save_data() in the current session
    last        \* the last call made: its arguments and its outcome

vars == <<records, file, saved, pc, loads, saves, last>>

----------------------------------------------------------------------------
(* Bounds of the model *)

\* The most Phone objects the book may hold in all its Records together.
MaxPhones == 3

\* The most Phone objects the book may hold in a run of main().
MaxMainPhones == 2

----------------------------------------------------------------------------
(* Strings *)

None == <<>>

Some(x) == <<x>>

Char(s, i) == SubSeq(s, i, i)

DecimalDigits == {"0", "1", "2", "3", "4", "5", "6", "7", "8", "9"}

\* str.isdigit(): at least one character, and every character a digit.
isdigit(s) == Len(s) > 0 /\ \A i \in 1..Len(s) : Char(s, i) \in DecimalDigits

DigitVal(c) == CHOOSE n \in 0..9 : Char("0123456789", n + 1) = c

\* int() of a string of digits.
RECURSIVE DigitsToInt(_)
DigitsToInt(s) ==
    IF Len(s) = 0 THEN 0
    ELSE 10 * DigitsToInt(SubSeq(s, 1, Len(s) - 1)) + DigitVal(Char(s, Len(s)))

\* The index of the first occurrence of character c in s at or after
\* position i, or 0 when there is none.
RECURSIVE IndexFrom(_, _, _)
IndexFrom(s, c, i) ==
    IF i > Len(s) THEN 0
    ELSE IF Char(s, i) = c THEN i
    ELSE IndexFrom(s, c, i + 1)

----------------------------------------------------------------------------
(* Field types *)

PhoneLen == 10

\* Phone.validate
validate(value) == isdigit(value) /\ Len(value) = PhoneLen

\* Phone.__init__: raises ValueError unless validate(value).
Phone(value) == [raised |-> ~validate(value), value |-> value]

(* Calendar arithmetic of datetime *)

IsLeap(y) == (y % 4 = 0) /\ ((y % 100 # 0) \/ (y % 400 = 0))

DaysInMonth(y, m) ==
    IF m = 2 THEN (IF IsLeap(y) THEN 29 ELSE 28)
    ELSE IF m \in {4, 6, 9, 11} THEN 30
    ELSE 31

RECURSIVE DaysBeforeMonth(_, _)
DaysBeforeMonth(y, m) ==
    IF m = 1 THEN 0
    ELSE DaysBeforeMonth(y, m - 1) + DaysInMonth(y, m - 1)

DaysBeforeYear(y) ==
    365 * (y - 1) + ((y - 1) \div 4) - ((y - 1) \div 100) + ((y - 1) \div 400)

\* date.toordinal(): 1 for 01.01.0001.
Ordinal(y, m, d) == DaysBeforeYear(y) + DaysBeforeMonth(y, m) + d

ValidDate(y, m, d) ==
    /\ y \in 1..9999
    /\ m \in 1..12
    /\ d \in 1..DaysInMonth(y, m)

\* The directive %d of strptime: 3[0-1] | [1-2]\d | 0[1-9] | [1-9] | " "[1-9]
DayField(f) ==
    \/ Len(f) = 2 /\ Char(f, 1) = "3" /\ Char(f, 2) \in {"0", "1"}
    \/ Len(f) = 2 /\ Char(f, 1) \in {"1", "2"} /\ Char(f, 2) \in DecimalDigits
    \/ Len(f) = 2 /\ Char(f, 1) \in {"0", " "} /\ Char(f, 2) \in DecimalDigits \ {"0"}
    \/ Len(f) = 1 /\ f \in DecimalDigits \ {"0"}

\* The directive %m of strptime: 1[0-2] | 0[1-9] | [1-9]
MonthField(f) ==
    \/ Len(f) = 2 /\ Char(f, 1) = "1" /\ Char(f, 2) \in {"0", "1", "2"}
    \/ Len(f) = 2 /\ Char(f, 1) = "0" /\ Char(f, 2) \in DecimalDigits \ {"0"}
    \/ Len(f) = 1 /\ f \in DecimalDigits \ {"0"}

\* The directive %Y of strptime: \d\d\d\d
YearField(f) == Len(f) = 4 /\ isdigit(f)

\* int() of the text a directive matched; the blank of " 7" is skipped.
FieldToInt(f) ==
    IF Len(f) > 0 /\ Char(f, 1) = " " THEN DigitsToInt(SubSeq(f, 2, Len(f)))
    ELSE DigitsToInt(f)

NoDate == [year |-> 1, month |-> 1, day |-> 1]

\* datetime.strptime(value, "%d.%m.%Y"): the first two dots delimit the day
\* and the month, the year is the rest of the string; the result is the
\* date at midnight, and ValueError is raised on any mismatch or on a date
\* that is not in the calendar.
strptime(value) ==
    LET i == IndexFrom(value, ".", 1)
        j == IF i = 0 THEN 0 ELSE IndexFrom(value, ".", i + 1)
        df == SubSeq(value, 1, i - 1)
        mf == SubSeq(value, i + 1, j - 1)
        yf == SubSeq(value, j + 1, Len(value))
        shaped == i > 0 /\ j > 0 /\ DayField(df) /\ MonthField(mf) /\ YearField(yf)
        ok == shaped /\ ValidDate(FieldToInt(yf), FieldToInt(mf), FieldToInt(df))
    IN  [raised |-> ~ok,
         value  |-> IF ok
                    THEN [year |-> FieldToInt(yf), month |-> FieldToInt(mf),
                          day |-> FieldToInt(df)]
                    ELSE NoDate]

\* Birthday.__init__: the ValueError of strptime is raised again.
Birthday(value) == strptime(value)

\* Two decimal places, zero-padded (%d and %m of strftime).
Fmt2(n) ==
    Char("0123456789", ((n \div 10) % 10) + 1) \o Char("0123456789", (n % 10) + 1)

\* datetime.strftime('%d.%m.%Y'), for the four-digit years used here.
strftime(date) ==
    Fmt2(date.day) \o "." \o Fmt2(date.month) \o "."
        \o Fmt2(date.year \div 100) \o Fmt2(date.year % 100)

----------------------------------------------------------------------------
(* Record *)

NoRecord == [name |-> "", phones |-> <<>>, birthday |-> None]

\* [Phone(phone) for phone in phones]: the first invalid phone raises.
PhonesRaise(phones) == \E i \in 1..Len(phones) : Phone(phones[i]).raised

\* Record.__init__(name, phones, birthday).  phones and birthday are
\* optional; an empty list and an empty string count as absent ("if phones",
\* "if birthday").
RecordInit(name, phones, birthday) ==
    LET hasB == birthday # None /\ birthday[1] # ""
        ps == IF phones # None THEN phones[1] ELSE <<>>
        b == IF hasB THEN Birthday(birthday[1]) ELSE [raised |-> FALSE, value |-> NoDate]
        bad == PhonesRaise(ps) \/ b.raised
    IN  [raised |-> bad,
         rec |-> IF bad THEN NoRecord
                 ELSE [name |-> name,
                       phones |-> [i \in 1..Len(ps) |-> Phone(ps[i]).value],
                       birthday |-> IF hasB THEN Some(b.value) ELSE None]]

\* The index of the first Phone of the list whose value is phone, or 0.
RECURSIVE FirstPhone(_, _, _)
FirstPhone(phones, phone, i) ==
    IF i > Len(phones) THEN 0
    ELSE IF phones[i] = phone THEN i
    ELSE FirstPhone(phones, phone, i + 1)

RemoveAt(s, i) == SubSeq(s, 1, i - 1) \o SubSeq(s, i + 1, Len(s))

\* Record.add_phone: Phone(phone) is built, and may raise, before the append.
add_phone(rec, phone) ==
    LET p == Phone(phone)
    IN  [raised |-> p.raised,
         rec |-> IF p.raised THEN rec
                 ELSE [rec EXCEPT !.phones = Append(@, p.value)]]

\* A removal that drops every Phone with that value, not only the first.
RECURSIVE WithoutValue(_, _)
WithoutValue(phones, phone) ==
    IF phones = <<>> THEN <<>>
    ELSE (IF Head(phones) = phone THEN <<>> ELSE <<Head(phones)>>)
         \o WithoutValue(Tail(phones), phone)

remove_phone_all(rec, phone) == [rec EXCEPT !.phones = WithoutValue(@, phone)]

\* Record.remove_phone: the first Phone with that value is removed.
remove_phone(rec, phone) ==
    LET i == FirstPhone(rec.phones, phone, 1)
    IN  IF i = 0 THEN rec ELSE [rec EXCEPT !.phones = RemoveAt(@, i)]

\* Record.edit_phone: the value of the first Phone equal to old_phone is
\* overwritten; no Phone is constructed, so nothing validates new_phone.
edit_phone(rec, old_phone, new_phone) ==
    LET i == FirstPhone(rec.phones, old_phone, 1)
    IN  IF i = 0 THEN rec ELSE [rec EXCEPT !.phones[i] = new_phone]

\* An add_birthday that drops the old birthday before it parses the new one.
add_birthday_clear(rec, birthday) ==
    LET b == Birthday(birthday)
    IN  [raised |-> b.raised,
         rec |-> [rec EXCEPT !.birthday = IF b.raised THEN None ELSE Some(b.value)]]

\* Record.add_birthday: Birthday(birthday) is built, and may raise, before
\* the assignment.
add_birthday(rec, birthday) ==
    LET b == Birthday(birthday)
    IN  [raised |-> b.raised,
         rec |-> IF b.raised THEN rec ELSE [rec EXCEPT !.birthday = Some(b.value)]]

----------------------------------------------------------------------------
(* AddressBook *)

\* AddressBook.__init__
EmptyBook == <<>>

\* The position of key name in the dict, or 0.
RECURSIVE KeyIndex(_, _, _)
KeyIndex(recs, name, i) ==
    IF i > Len(recs) THEN 0
    ELSE IF recs[i].name = name THEN i
    ELSE KeyIndex(recs, name, i + 1)

\* self.records[key] = record: an existing key keeps its position.
SetItem(recs, record) ==
    LET i == KeyIndex(recs, record.name, 1)
    IN  IF i = 0 THEN Append(recs, record) ELSE [recs EXCEPT ![i] = record]

\* A book kept as a list of Records: a second Record of the same name is
\* appended after the first.
add_record_append(recs, record) == Append(recs, record)

\* AddressBook.add_record
add_record(recs, record) == SetItem(recs, record)

\* A removal that empties the dict when the key is found.
remove_record_clear(recs, name) ==
    IF KeyIndex(recs, name, 1) = 0 THEN recs ELSE <<>>

\* AddressBook.remove_record
remove_record(recs, name) ==
    LET i == KeyIndex(recs, name, 1)
    IN  IF i = 0 THEN recs ELSE RemoveAt(recs, i)

\* AddressBook.find_record: the Record, or None.
find_record(recs, name) ==
    LET i == KeyIndex(recs, name, 1)
    IN  IF i = 0 THEN None ELSE Some(recs[i])

\* AddressBook.list_records
list_records(recs) == recs

SecondsPerDay == 24 * 60 * 60

NoToday == [year |-> 1, month |-> 1, day |-> 1, second |-> 0]

\* datetime.replace(year=...): ValueError when the day is not in that year.
Replace(date, year) ==
    [raised |-> ~ValidDate(year, date.month, date.day),
     value  |-> [date EXCEPT !.year = year]]

\* next_birthday < today, next_birthday being a date at midnight and today
\* the clock reading: a date and the seconds elapsed since its midnight.
Before(date, today) ==
    LET a == Ordinal(date.year, date.month, date.day)
        b == Ordinal(today.year, today.month, today.day)
    IN  a < b \/ (a = b /\ 0 < today.second)

\* (next_birthday - today).days: timedelta keeps days as the floor of the
\* difference, the remainder being a non-negative part of a day.
DeltaDays(date, today) ==
    LET a == Ordinal(date.year, date.month, date.day)
        b == Ordinal(today.year, today.month, today.day)
        s == (a - b) * SecondsPerDay - today.second
    IN  IF s >= 0 THEN s \div SecondsPerDay
        ELSE -(((-s) + SecondsPerDay - 1) \div SecondsPerDay)

\* The body of the loop of get_upcoming_birthdays for one record: whether
\* it raises, and whether the record is appended.
Upcoming(record, today, days) ==
    IF record.birthday = None THEN [raised |-> FALSE, take |-> FALSE]
    ELSE
        LET r1 == Replace(record.birthday[1], today.year)
            roll == ~r1.raised /\ Before(r1.value, today)
            r2 == IF roll THEN Replace(r1.value, today.year + 1) ELSE r1
        IN  IF r1.raised \/ r2.raised THEN [raised |-> TRUE, take |-> FALSE]
            ELSE [raised |-> FALSE,
                  take |-> 0 <= DeltaDays(r2.value, today)
                           /\ DeltaDays(r2.value, today) < days]

RECURSIVE Filter(_, _, _, _)
Filter(recs, today, days, i) ==
    IF i > Len(recs) THEN <<>>
    ELSE (IF Upcoming(recs[i], today, days).take THEN <<recs[i]>> ELSE <<>>)
         \o Filter(recs, today, days, i + 1)

\* AddressBook.get_upcoming_birthdays(days) when datetime.now() is today.
\* The loop has no handler, so the first record that raises ends the call.
get_upcoming_birthdays(recs, today, days) ==
    LET bad == \E i \in 1..Len(recs) : Upcoming(recs[i], today, days).raised
    IN  [raised |-> bad,
         value |-> IF bad THEN <<>> ELSE Filter(recs, today, days, 1)]

----------------------------------------------------------------------------
(* The last call *)

NoLast ==
    [op |-> "init", name |-> "", phone |-> "", raised |-> FALSE,
     rec |-> None, orig |-> None, today |-> NoToday, days |-> 0,
     upcoming |-> <<>>, line |-> "", command |-> "", out |-> ""]

RECURSIVE SumPhones(_, _)
SumPhones(recs, i) ==
    IF i > Len(recs) THEN 0 ELSE Len(recs[i].phones) + SumPhones(recs, i + 1)

\* The number of Phone objects in the book.
TotalPhones(recs) == SumPhones(recs, 1)

\* The book after its Record under name became rec (a Record is mutated in
\* place, so the dict keeps it where it is).
Mutated(recs, name, rec) == [recs EXCEPT ![KeyIndex(recs, name, 1)] = rec]

----------------------------------------------------------------------------
(* A client of the classes: it builds Records, puts them in a book and      *)
(* calls the methods of the book and of the Records it holds.               *)

Names == {"John", "Ann"}

PhoneA == "0501234567"

PhoneB == "0671112233"

\* Arguments given to Phone(): two valid numbers, a short one, a long one
\* and one of ten characters that are not all digits.
PhoneInputs == {PhoneA, PhoneB, "12345", "05012345678", "05012345ab"}

\* Values asked for by remove_phone and edit_phone.
PhoneKeys == {PhoneA, PhoneB}

\* New values given to edit_phone.
EditInputs == {PhoneA, "12345"}

PhoneLists ==
    {None, Some(<<>>), Some(<<PhoneA>>), Some(<<PhoneB, PhoneA>>),
     Some(<<PhoneA, "12345">>)}

ClientBirthdays == {None, Some(""), Some("15.03.1990"), Some("31.02.2024")}

Init ==
    /\ records = EmptyBook
    /\ file = None
    /\ saved = None
    /\ pc = "off"
    /\ loads = 0
    /\ saves = 0
    /\ last = NoLast

\* book.add_record(Record(name, phones, birthday)).  rec remembers the
\* Record that was built, orig the phone list of the Record the book held
\* under that name before.
AddRecord(name, phones, birthday) ==
    \E r \in {RecordInit(name, phones, birthday)} :
    \E new \in {IF r.raised THEN records ELSE add_record(records, r.rec)} :
    \E old \in {find_record(records, name)} :
        /\ TotalPhones(new) <= MaxPhones
        /\ records' = new
        /\ last' = [NoLast EXCEPT !.op = "add_record", !.name = name,
                                  !.raised = r.raised,
                                  !.rec = IF r.raised THEN None ELSE Some(r.rec),
                                  !.orig = IF old = None THEN None
                                           ELSE Some(old[1].phones)]
        /\ UNCHANGED <<file, saved, pc, loads, saves>>

\* book.remove_record(name).  rec remembers the Record the book held under
\* that name before.
RemoveRecord(name) ==
    /\ records' = remove_record(records, name)
    /\ last' = [NoLast EXCEPT !.op = "remove_record", !.name = name,
                              !.rec = find_record(records, name)]
    /\ UNCHANGED <<file, saved, pc, loads, saves>>

\* book.find_record(name)
FindRecord(name) ==
    /\ last' = [NoLast EXCEPT !.op = "find_record", !.name = name,
                              !.rec = find_record(records, name)]
    /\ UNCHANGED <<records, file, saved, pc, loads, saves>>

\* book.find_record(name).add_phone(phone).  orig remembers the phone list
\* from before the call.
AddPhone(name, phone) ==
    /\ find_record(records, name) # None
    /\ TotalPhones(records) < MaxPhones
    /\ \E rec \in {find_record(records, name)[1]} :
       \E r \in {add_phone(rec, phone)} :
           /\ records' = Mutated(records, name, r.rec)
           /\ last' = [NoLast EXCEPT !.op = "add_phone", !.name = name,
                                     !.phone = phone, !.raised = r.raised,
                                     !.orig = Some(rec.phones)]
    /\ UNCHANGED <<file, saved, pc, loads, saves>>

\* book.find_record(name).remove_phone(phone).  orig remembers the phone
\* list from before the add_phone when this call directly follows a
\* successful add_phone of the same value on the same Record.
RemovePhone(name, phone) ==
    /\ find_record(records, name) # None
    /\ \E rec \in {find_record(records, name)[1]} :
       \E undo \in {/\ last.op = "add_phone" /\ ~last.raised
                     /\ last.name = name /\ last.phone = phone} :
           /\ records' = Mutated(records, name, remove_phone(rec, phone))
           /\ last' = [NoLast EXCEPT !.op = "remove_phone", !.name = name,
                                     !.phone = phone,
                                     !.orig = IF undo THEN last.orig ELSE None]
    /\ UNCHANGED <<file, saved, pc, loads, saves>>

\* book.find_record(name).edit_phone(old_phone, new_phone)
EditPhone(name, old_phone, new_phone) ==
    /\ find_record(records, name) # None
    /\ \E rec \in {find_record(records, name)[1]} :
           /\ records' = Mutated(records, name, edit_phone(rec, old_phone, new_phone))
           /\ last' = [NoLast EXCEPT !.op = "edit_phone", !.name = name,
                                     !.phone = new_phone]
    /\ UNCHANGED <<file, saved, pc, loads, saves>>

\* book.find_record(name).add_birthday(birthday)
AddBirthday(name, birthday) ==
    /\ find_record(records, name) # None
    /\ \E rec \in {find_record(records, name)[1]} :
       \E r \in {add_birthday(rec, birthday)} :
           /\ records' = Mutated(records, name, r.rec)
           /\ last' = [NoLast EXCEPT !.op = "add_birthday", !.name = name,
                                     !.raised = r.raised]
    /\ UNCHANGED <<file, saved, pc, loads, saves>>

\* book.get_upcoming_birthdays(days), the clock reading today.
UpcomingBirthdays(today, days) ==
    /\ \E r \in {get_upcoming_birthdays(records, today, days)} :
           last' = [NoLast EXCEPT !.op = "get_upcoming_birthdays",
                                 !.today = today, !.days = days,
                                 !.raised = r.raised, !.upcoming = r.value]
    /\ UNCHANGED <<records, file, saved, pc, loads, saves>>

Next ==
    \/ \E name \in Names, phones \in PhoneLists, birthday \in ClientBirthdays :
           AddRecord(name, phones, birthday)
    \/ \E name \in Names : RemoveRecord(name)
    \/ \E name \in Names : FindRecord(name)
    \/ \E name \in Names, phone \in PhoneInputs : AddPhone(name, phone)
    \/ \E name \in Names, phone \in PhoneKeys : RemovePhone(name, phone)
    \/ \E name \in Names, old \in PhoneKeys, new \in EditInputs :
           EditPhone(name, old, new)

Spec == Init /\ [][Next]_vars

----------------------------------------------------------------------------
(* A client that keeps birthdays and asks for the upcoming ones. *)

BirthdayInputs ==
    {"15.03.1990", "29.02.2000", "01.01.2001", "5.3.1990", "31.02.2024",
     "1990-03-15"}

Dates ==
    {<<2024, 3, 10>>, <<2024, 3, 15>>, <<2023, 3, 10>>, <<2024, 2, 29>>,
     <<2023, 12, 30>>}

\* Clock readings: midnight, one second later, the last second of the day.
Clock ==
    {[year |-> d[1], month |-> d[2], day |-> d[3], second |-> s] :
        d \in Dates, s \in {0, 1, SecondsPerDay - 1}}

Windows == {1, 5, 7}

BirthdayNext ==
    \/ \E name \in Names, birthday \in BirthdayInputs :
           AddRecord(name, None, Some(birthday))
    \/ \E name \in Names : AddRecord(name, None, None)
    \/ \E name \in Names : RemoveRecord(name)
    \/ \E name \in Names, birthday \in BirthdayInputs : AddBirthday(name, birthday)
    \/ \E today \in Clock, days \in Windows : UpcomingBirthdays(today, days)

BirthdaySpec == Init /\ [][BirthdayNext]_vars

----------------------------------------------------------------------------
(* Command handlers.  A handler gives the text it returns or the message   *)
(* of the exception it raises, and the book as the call leaves it.         *)

Digit(n) == Char("0123456789", n + 1)

Result(raised, out, recs) == [raised |-> raised, out |-> out, records |-> recs]

\* "name, phone, *_ = args" with too few values.
UnpackError(want, got) ==
    "not enough values to unpack (expected at least " \o Digit(want)
        \o ", got " \o Digit(got) \o ")"

PhoneError == "Invalid phone number. Must be 10 digits."

BirthdayError == "Invalid date format. Use DD.MM.YYYY"

ReplaceError == "day is out of range for month"

RECURSIVE Join(_, _)
Join(strs, sep) ==
    IF strs = <<>> THEN ""
    ELSE IF Len(strs) = 1 THEN strs[1]
    ELSE strs[1] \o sep \o Join(Tail(strs), sep)

\* input_error: ValueError, IndexError and KeyError become the returned text.
input_error(r) ==
    [r EXCEPT !.out = IF r.raised THEN "Error: " \o r.out ELSE r.out]

add_contact(args, recs) ==
    input_error(
        IF Len(args) < 2 THEN Result(TRUE, UnpackError(2, Len(args)), recs)
        ELSE
            LET name == args[1]
                phone == args[2]
                record == find_record(recs, name)
            IN  IF record # None
                THEN LET r == add_phone(record[1], phone)
                     IN  Result(r.raised,
                                IF r.raised THEN PhoneError
                                ELSE "Phone " \o phone \o " added to contact "
                                         \o name \o ".",
                                Mutated(recs, name, r.rec))
                ELSE LET r == RecordInit(name, Some(<<phone>>), None)
                     IN  IF r.raised THEN Result(TRUE, PhoneError, recs)
                         ELSE Result(FALSE,
                                     "Contact " \o name \o " with phone " \o phone
                                         \o " added.",
                                     add_record(recs, r.rec)))

change_phone(args, recs) ==
    input_error(
        IF Len(args) < 3 THEN Result(TRUE, UnpackError(3, Len(args)), recs)
        ELSE
            LET name == args[1]
                old_phone == args[2]
                new_phone == args[3]
                record == find_record(recs, name)
            IN  IF record # None
                THEN Result(FALSE,
                            "Phone " \o old_phone \o " changed to " \o new_phone
                                \o " for contact " \o name \o ".",
                            Mutated(recs, name,
                                    edit_phone(record[1], old_phone, new_phone)))
                ELSE Result(FALSE, "Contact " \o name \o " not found.", recs))

show_phones(args, recs) ==
    input_error(
        IF Len(args) < 1 THEN Result(TRUE, UnpackError(1, Len(args)), recs)
        ELSE
            LET name == args[1]
                record == find_record(recs, name)
            IN  IF record # None
                THEN Result(FALSE,
                            "Contact " \o name \o ": Phones: "
                                \o Join(record[1].phones, ", "),
                            recs)
                ELSE Result(FALSE, "Contact " \o name \o " not found.", recs))

ShowLine(rec) ==
    "Name: " \o rec.name \o ", Phones: " \o Join(rec.phones, ", ")
        \o ", Birthday: "
        \o (IF rec.birthday # None THEN strftime(rec.birthday[1]) ELSE "No birthday")

show_all_contacts(args, recs) ==
    LET all_records == list_records(recs)
    IN  input_error(
            Result(FALSE,
                   Join([i \in 1..Len(all_records) |-> ShowLine(all_records[i])], "\n"),
                   recs))

\* The handler add_birthday (the method of Record has the name).
add_birthday_handler(args, recs) ==
    input_error(
        IF Len(args) < 2 THEN Result(TRUE, UnpackError(2, Len(args)), recs)
        ELSE
            LET name == args[1]
                birthday == args[2]
                record == find_record(recs, name)
            IN  IF record # None
                THEN LET r == add_birthday(record[1], birthday)
                     IN  Result(r.raised,
                                IF r.raised THEN BirthdayError
                                ELSE "Birthday " \o birthday \o " added to contact "
                                         \o name \o ".",
                                Mutated(recs, name, r.rec))
                ELSE Result(FALSE, "Contact " \o name \o " not found.", recs))

show_birthday(args, recs) ==
    input_error(
        IF Len(args) < 1 THEN Result(TRUE, UnpackError(1, Len(args)), recs)
        ELSE
            LET name == args[1]
                record == find_record(recs, name)
            IN  IF record # None /\ record[1].birthday # None
                THEN Result(FALSE,
                            "Contact " \o name \o ": Birthday: "
                                \o strftime(record[1].birthday[1]),
                            recs)
                ELSE Result(FALSE,
                            "Contact " \o name \o " not found or no birthday set.",
                            recs))

\* int(text) for a text without blanks or underscores: an optional sign
\* and digits, ValueError otherwise.
ParseInt(text) ==
    LET signed == Len(text) > 0 /\ Char(text, 1) \in {"+", "-"}
        digits == IF signed THEN SubSeq(text, 2, Len(text)) ELSE text
        ok == isdigit(digits)
        n == IF ok THEN DigitsToInt(digits) ELSE 0
    IN  [raised |-> ~ok,
         value |-> IF signed /\ Char(text, 1) = "-" THEN -n ELSE n]

DefaultDays == 7

birthdays(args, recs, today) ==
    input_error(
        LET days == IF args # <<>> THEN ParseInt(args[1])
                    ELSE [raised |-> FALSE, value |-> DefaultDays]
        IN  IF days.raised
            THEN Result(TRUE,
                        "invalid literal for int() with base 10: '" \o args[1] \o "'",
                        recs)
            ELSE
                LET upcoming == get_upcoming_birthdays(recs, today, days.value)
                IN  IF upcoming.raised THEN Result(TRUE, ReplaceError, recs)
                    ELSE IF upcoming.value # <<>>
                    THEN Result(FALSE,
                                Join([i \in 1..Len(upcoming.value) |->
                                         upcoming.value[i].name \o " - "
                                             \o strftime(upcoming.value[i].birthday[1])],
                                     "\n"),
                                recs)
                    ELSE Result(FALSE, "No upcoming birthdays.", recs))

----------------------------------------------------------------------------
(* Persistence: pickle writes the object graph of the book as a stream of  *)
(* opcodes and rebuilds the objects from it without calling __init__.      *)

Tok(op, s, n) == [op |-> op, s |-> s, n |-> n]

DumpBirthday(b) ==
    IF b = None THEN <<Tok("NONE", "", 0)>>
    ELSE <<Tok("DATETIME", "", 0), Tok("INT", "", b[1].year),
           Tok("INT", "", b[1].month), Tok("INT", "", b[1].day)>>

DumpRecord(rec) ==
    <<Tok("STR", rec.name, 0), Tok("OBJ", "Record", 0), Tok("STR", rec.name, 0),
      Tok("LIST", "", Len(rec.phones))>>
        \o [i \in 1..Len(rec.phones) |-> Tok("STR", rec.phones[i], 0)]
        \o DumpBirthday(rec.birthday)

RECURSIVE DumpRecords(_)
DumpRecords(recs) ==
    IF recs = <<>> THEN <<>>
    ELSE DumpRecord(Head(recs)) \o DumpRecords(Tail(recs))

\* pickle.dump(book, f)
dump(recs) ==
    <<Tok("OBJ", "AddressBook", 0), Tok("DICT", "", Len(recs))>> \o DumpRecords(recs)

\* The Record whose dict key is at position p of the stream, and the
\* position after it.
LoadRecord(b, p) ==
    LET n == b[p + 3].n
        q == p + 4 + n
        none == b[q].op = "NONE"
    IN  [rec |-> [name |-> b[p + 2].s,
                  phones |-> [i \in 1..n |-> b[p + 3 + i].s],
                  birthday |-> IF none THEN None
                               ELSE Some([year |-> b[q + 1].n, month |-> b[q + 2].n,
                                          day |-> b[q + 3].n])],
         next |-> IF none THEN q + 1 ELSE q + 4]

RECURSIVE LoadRecords(_, _, _)
LoadRecords(b, p, n) ==
    IF n = 0 THEN <<>>
    ELSE LET r == LoadRecord(b, p)
         IN  <<r.rec>> \o LoadRecords(b, r.next, n - 1)

\* pickle.load(f)
load(b) == LoadRecords(b, 3, b[2].n)

\* save_data(book): the file is written anew.
save_data(recs) == Some(dump(recs))

\* A load_data that ignores the file and starts every session empty.
load_data_fresh(f) == EmptyBook

\* load_data(): the saved book, or a new AddressBook when there is no file.
load_data(f) == IF f = None THEN EmptyBook ELSE load(f[1])

----------------------------------------------------------------------------
(* main() *)

\* str.split(): the words between runs of blanks.
RECURSIVE SplitFrom(_, _, _)
SplitFrom(s, i, word) ==
    IF i > Len(s) THEN (IF word = "" THEN <<>> ELSE <<word>>)
    ELSE IF Char(s, i) = " "
    THEN (IF word = "" THEN <<>> ELSE <<word>>) \o SplitFrom(s, i + 1, "")
    ELSE SplitFrom(s, i + 1, word \o Char(s, i))

split(s) == SplitFrom(s, 1, "")

Upper == "ABCDEFGHIJKLMNOPQRSTUVWXYZ"

Lower == "abcdefghijklmnopqrstuvwxyz"

LowerChar(c) ==
    LET i == IndexFrom(Upper, c, 1)
    IN  IF i = 0 THEN c ELSE Char(Lower, i)

\* str.lower()
RECURSIVE lower(_)
lower(s) ==
    IF s = "" THEN ""
    ELSE LowerChar(Char(s, 1)) \o lower(SubSeq(s, 2, Len(s)))

\* The lines typed at the prompt.
Lines ==
    {"", "   ", "hello", "foo", "close", "EXIT",
     "add", "add John 0501234567", "add  John  12345", "add Ann 0671112233",
     "change John 0501234567 12345", "change John 0501234567",
     "change Bob 0501234567 0671112233",
     "phone John", "phone", "all",
     "add-birthday John 15.03.1990", "add-birthday John 29.02.2000",
     "add-birthday John 31.02.2024", "add-birthday John",
     "add-birthday Ann 01.01.2001",
     "show-birthday John", "birthdays", "birthdays 5", "birthdays abc"}

MainClock ==
    {[year |-> 2023, month |-> 3, day |-> 10, second |-> 1],
     [year |-> 2024, month |-> 2, day |-> 29, second |-> 0]}

\* user_input.split() of every line.
Words == [line \in Lines |-> split(line)]

\* command.lower() of every line that has a first word.
Commands ==
    [line \in Lines |-> IF Words[line] = <<>> THEN "" ELSE lower(Words[line][1])]

\* datetime.now() is read by the command birthdays alone.
Readings(line) == IF Commands[line] = "birthdays" THEN MainClock ELSE {NoToday}

\* main() is started: load_data(), the greeting, and the prompt.
Start ==
    /\ pc # "loop"
    /\ records' = load_data(file)
    /\ pc' = "loop"
    /\ loads' = 1
    /\ saves' = 0
    /\ last' = [NoLast EXCEPT !.op = "load_data",
                              !.out = "Welcome to the assistant bot!"]
    /\ UNCHANGED <<file, saved>>

\* What the dispatch of main() does with a command and its arguments.
Dispatch(command, args, today) ==
    IF command = "hello" THEN Result(FALSE, "How can I help you?", records)
    ELSE IF command = "add" THEN add_contact(args, records)
    ELSE IF command = "change" THEN change_phone(args, records)
    ELSE IF command = "phone" THEN show_phones(args, records)
    ELSE IF command = "all" THEN show_all_contacts(args, records)
    ELSE IF command = "add-birthday" THEN add_birthday_handler(args, records)
    ELSE IF command = "show-birthday" THEN show_birthday(args, records)
    ELSE IF command = "birthdays" THEN birthdays(args, records, today)
    ELSE Result(FALSE, "Invalid command.", records)

\* One turn of the loop of main(): a line is read and handled; today is
\* the clock reading if the line asks for the birthdays.
Command(line, today) ==
    /\ pc = "loop"
    /\ today \in Readings(line)
    /\ IF Words[line] = <<>>
       THEN \* "command, *args = []" raises ValueError outside any handler
            /\ pc' = "crashed"
            /\ last' = [NoLast EXCEPT !.op = "input", !.line = line,
                                      !.raised = TRUE,
                                      !.out = "ValueError: " \o UnpackError(1, 0)]
            /\ UNCHANGED <<records, file, saved, loads, saves>>
       ELSE IF Commands[line] \in {"close", "exit"}
       THEN /\ file' = save_data(records)
            /\ saved' = Some(records)
            /\ saves' = saves + 1
            /\ pc' = "done"
            /\ last' = [NoLast EXCEPT !.op = "input", !.line = line,
                                      !.command = Commands[line],
                                      !.out = "Good bye!"]
            /\ UNCHANGED <<records, loads>>
       ELSE \E r \in {Dispatch(Commands[line], Tail(Words[line]), today)} :
            /\ TotalPhones(r.records) <= MaxMainPhones
            /\ records' = r.records
            /\ last' = [NoLast EXCEPT !.op = "input", !.line = line,
                                      !.command = Commands[line],
                                      !.today = today,
                                      !.raised = r.raised,
                                      !.out = r.out]
            /\ UNCHANGED <<file, saved, pc, loads, saves>>

\* input() finds the standard input closed: EOFError ends main().
EndOfInput ==
    /\ pc = "loop"
    /\ pc' = "crashed"
    /\ last' = [NoLast EXCEPT !.op = "eof", !.raised = TRUE, !.out = "EOFError"]
    /\ UNCHANGED <<records, file, saved, loads, saves>>

MainNext ==
    \/ Start
    \/ \E line \in Lines, today \in MainClock \cup {NoToday} : Command(line, today)
    \/ EndOfInput

MainSpec == Init /\ [][MainNext]_vars

----------------------------------------------------------------------------
(* Properties of Record and AddressBook *)

PhonesOf(recs, name) == find_record(recs, name)[1].phones

InList(list, x) == \E k \in 1..Len(list) : list[k] = x

Count(recs, name) == Cardinality({i \in 1..Len(recs) : recs[i].name = name})

TenDecimalDigits(v) ==
    Len(v) = 10 /\ \A k \in 1..Len(v) : Char(v, k) \in DecimalDigits

\* C1: every Phone held by a Record of the book has a value of exactly ten
\* characters, all of them decimal digits, whatever Record operations ran.
C1_PhonesAreTenDigits ==
    \A i \in 1..Len(records) :
        \A k \in 1..Len(records[i].phones) :
            TenDecimalDigits(records[i].phones[k])

\* C5 as stated: remove_phone(v) right after a successful add_phone(v) on
\* the same Record leaves the phone list as it was before the add_phone,
\* also when v was already in the list.
C5_AddThenRemoveRestores ==
    (last.op = "remove_phone" /\ last.orig # None)
        => PhonesOf(records, last.name) = last.orig[1]

\* C5 amended: remove_phone(v) right after a successful add_phone(v)
\* restores the phone list when v was not in the list before; when it was,
\* the first v is the one removed and the appended v stays at the end.
C5_AddThenRemoveRestoresAbsent ==
    (last.op = "remove_phone" /\ last.orig # None)
        => LET before == last.orig[1]
               after == PhonesOf(records, last.name)
               i == FirstPhone(before, last.phone, 1)
           IN  IF i = 0 THEN after = before
               ELSE after = Append(RemoveAt(before, i), last.phone)

\* C5 witness: a value absent from a non-empty list was added, then removed.
C5_Witness ==
    /\ last.op = "remove_phone"
    /\ last.orig # None
    /\ Len(last.orig[1]) >= 1
    /\ ~InList(last.orig[1], last.phone)
    /\ PhonesOf(records, last.name) = last.orig[1]

\* C6: after add_record(r), find_record(r.name) is r (the previous Record
\* of that name is replaced, not merged), the book holds one entry of that
\* name, and the entries of the other names are as before.
C6_AddThenFind ==
    [][(last'.op = "add_record" /\ ~last'.raised)
         => LET r == last'.rec[1]
            IN  /\ find_record(records', r.name) = Some(r)
                /\ Count(records', r.name) = 1
                /\ \A n \in Names \ {r.name} :
                      find_record(records', n) = find_record(records, n)]_vars

\* C6 witness: a Record replaced one of the same name that held other
\* phones, in a book that also holds another name.
C6_Witness ==
    /\ last.op = "add_record" /\ ~last.raised
    /\ last.orig # None /\ last.orig[1] # <<>>
    /\ last.rec[1].phones # <<>>
    /\ last.orig[1] # last.rec[1].phones
    /\ Len(records) = 2
    /\ find_record(records, last.name) = last.rec

\* C7: after remove_record(name), find_record(name) is None; no error is
\* raised; when the name was not in the book the book is unchanged; the
\* entries of the other names are as before.
C7_RemoveThenFind ==
    [][last'.op = "remove_record"
         => /\ ~last'.raised
            /\ find_record(records', last'.name) = None
            /\ find_record(records, last'.name) = None => records' = records
            /\ \A n \in Names \ {last'.name} :
                  find_record(records', n) = find_record(records, n)]_vars

\* C7 witness: a Record was removed from a book that keeps another one.
C7_Witness ==
    /\ last.op = "remove_record"
    /\ last.rec # None
    /\ Len(records) = 1
    /\ find_record(records, last.name) = None

----------------------------------------------------------------------------
(* Properties of get_upcoming_birthdays *)

\* The whole calendar days from today's date to the next day, today
\* included, whose month and day are those of the birthday.
CalendarGap(b, today) ==
    LET t == Ordinal(today.year, today.month, today.day)
        thisYear == Ordinal(today.year, b.month, b.day)
        nextYear == Ordinal(today.year + 1, b.month, b.day)
    IN  IF thisYear >= t THEN thisYear - t ELSE nextYear - t

Included(rec) == \E k \in 1..Len(last.upcoming) : last.upcoming[k].name = rec.name

\* C2: a get_upcoming_birthdays(days) that returns includes a Record
\* exactly when it has a birthday whose gap in calendar days is in
\* [0, days), at any time of day.
C2_WindowInCalendarDays ==
    (last.op = "get_upcoming_birthdays" /\ ~last.raised)
        => \A i \in 1..Len(records) :
              Included(records[i])
                  <=> /\ records[i].birthday # None
                      /\ CalendarGap(records[i].birthday[1], last.today) >= 0
                      /\ CalendarGap(records[i].birthday[1], last.today) < last.days

\* C3: a get_upcoming_birthdays(days) that returns includes, for every
\* days >= 1, each Record whose birthday has today's month and day.
C3_TodayIsIncluded ==
    (last.op = "get_upcoming_birthdays" /\ ~last.raised /\ last.days >= 1)
        => \A i \in 1..Len(records) :
              (/\ records[i].birthday # None
               /\ records[i].birthday[1].month = last.today.month
               /\ records[i].birthday[1].day = last.today.day)
                  => Included(records[i])

\* C4: get_upcoming_birthdays raises no error, whatever birthdays the book
\* holds.
C4_NeverRaises == last.op = "get_upcoming_birthdays" => ~last.raised

----------------------------------------------------------------------------
(* Properties of main() and of the command handlers *)

\* C8: whatever line is entered, main() handles it and asks for the next
\* one; it ends only on close or exit, the book having been saved.
C8_EveryLineIsHandled ==
    last.op = "input"
        => /\ pc \in {"loop", "done"}
           /\ pc = "done" => (last.command \in {"close", "exit"} /\ saved = Some(records))

\* C9: when a command fails (its handler raised: too few arguments, a
\* phone that is not ten digits, a date that does not parse), the book and
\* every Record in it are as before the command.
C9_FailureLeavesBook ==
    [][(last'.op = "input" /\ last'.raised) => records' = records]_vars

\* C9 witness: add-birthday with a date that is not in the calendar failed
\* on a Record that has a birthday and a phone.
C9_Witness ==
    /\ last.op = "input" /\ last.raised
    /\ last.line = "add-birthday John 31.02.2024"
    /\ last.out = "Error: " \o BirthdayError
    /\ Len(records) = 1
    /\ records[1].birthday # None
    /\ records[1].phones # <<>>

\* C10: a session loads once, at its start, and gets the empty book when
\* no file exists and else the book given to the most recent save; it
\* saves once, at close or exit, and nowhere else; so the session after one
\* that ended with close or exit starts from the book that session left.
C10_LoadAndSaveOnce ==
    [][/\ pc' # "off" => loads' = 1
       /\ saves' = IF pc' = "done" THEN 1 ELSE 0
       /\ (file' = None) = (saved' = None)
       /\ (pc # "loop" /\ pc' = "loop")
             => records' = IF file = None THEN EmptyBook ELSE saved[1]
       /\ (pc = "loop" /\ pc' = "done")
             => (last'.command \in {"close", "exit"} /\ saved' = Some(records))
       /\ (pc = "loop" /\ saved' # saved) => pc' = "done"
       /\ (pc = "done" /\ pc' = "loop") => records' = records]_vars

\* C10 witness: a session has just started from a saved book that holds a
\* Record with two phones and a birthday.
C10_Witness ==
    /\ last.op = "load_data"
    /\ pc = "loop"
    /\ file # None
    /\ Len(records) = 1
    /\ Len(records[1].phones) = 2
    /\ records[1].birthday # None
    /\ saved = Some(records)

====
